---- MODULE Spec2Model ----
(***************************************************************************)
(* A model of scripts/codex_notify_slack.py: the notifier that posts an    *)
(* agent's "turn complete" message to Slack and keeps a session -> thread  *)
(* table in ~/.codex/slack_threads.json under an advisory flock.           *)
(*                                                                         *)
(* Representation of Python values                                         *)
(*   - a table key is a string; the members of NonStrKeys stand for keys   *)
(*     that are not Python strings (an int key of an in-memory dict).      *)
(*   - an entry is a record [isdict, channel, thread_ts, ua_int,           *)
(*     updated_at]; isdict = FALSE is any value that is not a dict.        *)
(*     thread_ts >= 1 is a non-empty string handle (Slack's "ts"), 0 is    *)
(*     the empty string and -1 a value that is not a string. ua_int says   *)
(*     whether updated_at is present and an int.                           *)
(*   - the Thread Store file is [kind, isobj, tbl]: absent, garbage (not   *)
(*     JSON), partial (opened for writing and not yet written: a prefix of *)
(*     a JSON text), or json holding an object (isobj) or some other JSON  *)
(*     value.                                                              *)
(***************************************************************************)
EXTENDS Integers, FiniteSets, Sequences, TLC

\* ---------------------------------------------------------------- bounds

NProcs == 2

\* the longest text given to _truncate, and the largest limit
MaxLen == 3
MaxLimit == 4

Procs == 1..NProcs

\* ------------------------------------------------------------- constants

\* _prune_threads' default max_age_s
max_age_s == 7 * 24 * 3600

\* the clock at the start of a run (an arbitrary epoch after the window)
Now0 == 3 * max_age_s

\* the handle of a thread that exists before the run; the backend hands out
\* fresh handles above it
PreTs == 1

TURN_COMPLETE == "agent-turn-complete"

\* --------------------------------------------------------- Python values

NonStrKeys == {"#7"}

NotADict == [isdict |-> FALSE, channel |-> "", thread_ts |-> -1,
             ua_int |-> FALSE, updated_at |-> 0]

\* {"channel": channel, "thread_ts": ts, "updated_at": int(time.time())}
ThreadEntry(channel, ts, t) ==
    [isdict |-> TRUE, channel |-> channel, thread_ts |-> ts,
     ua_int |-> TRUE, updated_at |-> t]

EmptyTable == [k \in {} |-> NotADict]

\* threads[key] = entry
Put(t, k, e) == [x \in (DOMAIN t) \cup {k} |-> IF x = k THEN e ELSE t[x]]

\* str.strip() on the values the environment takes here
Strip(s) == IF s = " " THEN "" ELSE s

\* ----------------------------------------------------------- Thread Store

AbsentFile == [kind |-> "absent", isobj |-> FALSE, tbl |-> EmptyTable]
GarbageFile == [kind |-> "garbage", isobj |-> FALSE, tbl |-> EmptyTable]
NonObjectFile == [kind |-> "json", isobj |-> FALSE, tbl |-> EmptyTable]

\* a file some writer has opened with mode "w" and not written yet
PartialFile == [kind |-> "partial", isobj |-> FALSE, tbl |-> EmptyTable]

\* strings that hold a lone surrogate (json.loads reads "\ud800" as one):
\* str.encode("utf-8") rejects them
LoneSurrogates == {"\\ud800", "sid:\\ud800"}

\* the member name json.dumps writes for a dict key: str(k) for an int key
JsonKey(k) == IF k = "#7" THEN "7" ELSE k

\* json.dumps(data, ..., sort_keys=True) raises TypeError when it has to
\* order a str key and an int key
DumpsRaises(t) ==
    /\ (DOMAIN t) \cap NonStrKeys # {}
    /\ (DOMAIN t) \ NonStrKeys # {}

\* write_text(..., encoding="utf-8") of the text json.dumps made with
\* ensure_ascii=False raises UnicodeEncodeError
EncodeRaises(t) ==
    \E k \in DOMAIN t :
      \/ k \in LoneSurrogates
      \/ t[k].isdict /\ t[k].channel \in LoneSurrogates

\* json.dumps(data, ...) of a table, as the file that holds it
Dumps(t) ==
    [kind |-> "json", isobj |-> TRUE,
     tbl |-> [k \in {JsonKey(x) : x \in DOMAIN t} |->
                t[CHOOSE x \in DOMAIN t : JsonKey(x) = k]]]

\* what a write at offset 0 leaves in a file that holds old: the text c,
\* or c followed by the tail of a longer text another writer put there
Written(old, c) ==
    IF old.kind = "partial" \/ old = c THEN {c} ELSE {c, GarbageFile}

\* _load_threads: {} when the file is absent or does not parse, else the
\* parsed value whatever it is
LoadThreads(f) ==
    IF f.kind = "json" THEN [isobj |-> f.isobj, tbl |-> f.tbl]
    ELSE [isobj |-> TRUE, tbl |-> EmptyTable]

\* the loop body with the age taken the wrong way round
PruneKeeps_AgeReversed(sid, entry, t) ==
    /\ ~(sid \in NonStrKeys \/ sid = "")
    /\ entry.isdict
    /\ ~(entry.ua_int /\ (entry.updated_at - t) > max_age_s)

\* the loop body of _prune_threads: TRUE when pruned[sid] = entry is reached
PruneKeeps(sid, entry, t) ==
    /\ ~(sid \in NonStrKeys \/ sid = "")
    /\ entry.isdict
    /\ ~(entry.ua_int /\ (t - entry.updated_at) > max_age_s)

\* _prune_threads on a dict
PruneThreads(t, n) ==
    LET keep == {k \in DOMAIN t : PruneKeeps(k, t[k], n)}
    IN [k \in keep |-> t[k]]

\* ------------------------------------------------------------- backends

\* what the Slack endpoint (or the network) answers to one chat.postMessage
Responses == {"urlerror", "nonjson", "thread_not_found", "channel_not_found",
              "no_ts", "ok"}

Raise(cls, msg) == [raised |-> TRUE, cls |-> cls, msg |-> msg, ts |-> 0]

\* _post_chat_post_message without the final check of ts
PostChatPostMessage_NoTsCheck(resp, fresh) ==
    CASE resp = "urlerror" -> Raise("URLError", "urlopen error")
      [] resp = "nonjson" ->
           Raise("RuntimeError", "Slack API returned non-JSON response")
      [] resp = "thread_not_found" ->
           Raise("RuntimeError", "Slack API error: thread_not_found")
      [] resp = "channel_not_found" ->
           Raise("RuntimeError", "Slack API error: channel_not_found")
      [] resp = "no_ts" -> [raised |-> FALSE, cls |-> "", msg |-> "", ts |-> 0]
      [] OTHER -> [raised |-> FALSE, cls |-> "", msg |-> "", ts |-> fresh]

\* _post_chat_post_message: the ts of the posted message, or the exception;
\* fresh is the ts the backend assigns when it accepts the message
PostChatPostMessage(resp, fresh) ==
    CASE resp = "urlerror" -> Raise("URLError", "urlopen error")
      [] resp = "nonjson" ->
           Raise("RuntimeError", "Slack API returned non-JSON response")
      [] resp = "thread_not_found" ->
           Raise("RuntimeError", "Slack API error: thread_not_found")
      [] resp = "channel_not_found" ->
           Raise("RuntimeError", "Slack API error: channel_not_found")
      [] resp = "no_ts" ->
           Raise("RuntimeError", "Slack API response missing ts")
      [] OTHER -> [raised |-> FALSE, cls |-> "", msg |-> "", ts |-> fresh]

\* "thread_not_found" in str(e), on the messages above
HasThreadNotFound(msg) == msg = "Slack API error: thread_not_found"

\* an except clause that swallows every RuntimeError
FallsThroughToRoot_AnyRuntimeError(e) == e.cls = "RuntimeError"

\* the except clause around the reply: TRUE when the exception is swallowed
\* and control falls through to "Start a new thread"
FallsThroughToRoot(e) == e.cls = "RuntimeError" /\ HasThreadNotFound(e.msg)

\* -------------------------------------------------------------- main

\* a filter that lets every record with a type through
IsTurnComplete_AnyType(type) == type # ""

\* notification.get("type") != "agent-turn-complete" is the early return 0
IsTurnComplete(type) == type = TURN_COMPLETE

\* _session_key: "sid:<id>" when the record carries a session id, else
\* "ppid:<parent pid>"
SessionKey(session_id) ==
    CASE session_id = "s1" -> "sid:s1"
      [] session_id = "s2" -> "sid:s2"
      [] session_id = "\\ud800" -> "sid:\\ud800"
      [] OTHER -> "ppid:41"

\* the if-chain with the webhook tested first
Route_WebhookFirst(bot_token, channel, webhook_url) ==
    IF webhook_url # "" THEN "webhook"
    ELSE IF bot_token # "" /\ channel # "" THEN "api"
    ELSE "notify"

\* the if-chain of main: which backend the invocation uses
Route(bot_token, channel, webhook_url) ==
    IF bot_token # "" /\ channel # "" THEN "api"
    ELSE IF webhook_url # "" THEN "webhook"
    ELSE "notify"

\* a decision that never finds the stored handle
ChooseThreadTs_AlwaysNew(t, session_key, channel) == 0

\* the reply-or-root decision of _send_slack_api: the stored handle to reply
\* into, or 0 (None)
ChooseThreadTs(t, session_key, channel) ==
    IF /\ session_key \in DOMAIN t
       /\ t[session_key].isdict
       /\ t[session_key].channel = channel
       /\ t[session_key].thread_ts >= 1
    THEN t[session_key].thread_ts
    ELSE 0

\* ---------------------------------------------------------------- state

VARIABLES
    env,        \* os.environ of the host: the four variables main reads
    haveFcntl,  \* _HAVE_FCNTL: whether import fcntl succeeded
    file,       \* ~/.codex/slack_threads.json
    tmp,        \* ~/.codex/slack_threads.json.tmp
    wfd,        \* per invocation, where the file it has open for writing
                \* now is: "tmp", "file" (renamed over the Thread Store),
                \* "lost" (replaced since), or "none"
    lock,       \* the processes holding flock(LOCK_EX) on the .lock file
    now,        \* int(time.time())
    nextTs,     \* the next handle the backend assigns to a root message
    pc,         \* each invocation's position in main
    key,        \* session_key
    threads,    \* the local threads of _send_slack_api
    thread_ts,  \* the local thread_ts of _send_slack_api (0 is None)
    exc,        \* whether an exception is propagating out of the try block
    exitc,      \* the exit code (-1 while running)
    h,          \* per invocation, what it has done so far (a history)
    file0,      \* the Thread Store file at the start of the run (a history)
    fx          \* the pure-function harness: a call and its result

vars == <<env, haveFcntl, file, tmp, wfd, lock, now, nextTs, pc, key,
          threads, thread_ts, exc, exitc, h, file0, fx>>

shared == <<file, tmp, wfd, lock, nextTs>>
locals == <<key, threads, thread_ts>>
fixed == <<env, haveFcntl, file0, fx>>
clock == <<now>>

\* the locals main has after reading the environment
bot_token == Strip(env.SLACK_BOT_TOKEN)
channel == Strip(env.SLACK_CHANNEL)
webhook_url == Strip(env.SLACK_WEBHOOK_URL)
debug_path == Strip(env.CODEX_NOTIFY_DEBUG_PATH)

\* kind: what argv held ("noarg", "badjson", "other" for a record of another
\* type, "turn"); after: the invocations that had ended when this one
\* started; tier: the backend main chose; locked: flock(LOCK_EX) returned; saw: what
\* _load_threads found; reply: the handle replied into; replyRes, rootRes,
\* webhook, notify, debug: how each call ended; rootTs: the handle the root
\* post returned; sent: the clock when the last post succeeded; saved: the
\* Thread Store file was replaced; wts: the handle the replaced file holds
\* for the session; acq, loads, posts, saves: how many times flock(LOCK_EX),
\* _load_threads, _post_chat_post_message and _save_threads were called;
\* killed: the process was killed inside _save_threads
H0 == [kind |-> "none", after |-> {}, tier |-> "none", locked |-> FALSE, saw |-> "none", reply |-> 0,
       replyRes |-> "none", rootRes |-> "none", rootTs |-> 0, sent |-> 0,
       webhook |-> "none", notify |-> "none", debug |-> "none",
       saved |-> FALSE, wts |-> 0,
       acq |-> 0, loads |-> 0, posts |-> 0, saves |-> 0, killed |-> FALSE]

\* ----------------------------------------------------------------- Init

K1 == "sid:s1"
K2 == "ppid:41"

Envs == [SLACK_BOT_TOKEN : {"", " ", "xoxb"}, SLACK_CHANNEL : {"", "C1"},
         SLACK_WEBHOOK_URL : {"", "url"},
         CODEX_NOTIFY_DEBUG_PATH : {"", "dbg"}]

\* entries a table on disk may hold for a key
InitEntries ==
    {ThreadEntry("C1", PreTs, Now0),
     ThreadEntry("C2", PreTs, Now0),
     ThreadEntry("C1", PreTs, Now0 - max_age_s),
     ThreadEntry("C1", PreTs, Now0 - max_age_s - 1),
     [ThreadEntry("C1", PreTs, 0) EXCEPT !.ua_int = FALSE],
     ThreadEntry("C1", 0, Now0),
     NotADict}

InitFiles ==
    {AbsentFile, GarbageFile, NonObjectFile, Dumps(EmptyTable)}
    \cup {Dumps(Put(EmptyTable, K1, e)) : e \in InitEntries}
    \cup {Dumps(Put(Put(EmptyTable, K1, ThreadEntry("C1", PreTs, Now0)),
                    K2, ThreadEntry("C2", PreTs, Now0 - max_age_s)))}

NoCall == [op |-> "none", arg |-> EmptyTable, at |-> 0, done |-> FALSE,
           out |-> EmptyTable, raised |-> FALSE]

InitProcs ==
    /\ tmp = AbsentFile
    /\ wfd = [p \in Procs |-> "none"]
    /\ lock = {}
    /\ now = Now0
    /\ nextTs = PreTs + 1
    /\ pc = [p \in Procs |-> "idle"]
    /\ key = [p \in Procs |-> ""]
    /\ threads = [p \in Procs |-> EmptyTable]
    /\ thread_ts = [p \in Procs |-> 0]
    /\ exc = [p \in Procs |-> FALSE]
    /\ exitc = [p \in Procs |-> -1]
    /\ h = [p \in Procs |-> H0]

\* every variable set
FullEnv == [SLACK_BOT_TOKEN |-> "xoxb", SLACK_CHANNEL |-> "C1",
            SLACK_WEBHOOK_URL |-> "url", CODEX_NOTIFY_DEBUG_PATH |-> "dbg"]

\* only the API tier's variables set
ApiEnv == [SLACK_BOT_TOKEN |-> "xoxb", SLACK_CHANNEL |-> "C1",
           SLACK_WEBHOOK_URL |-> "", CODEX_NOTIFY_DEBUG_PATH |-> ""]

\* a table that holds a thread of session K1
SessionFile == Dumps(Put(EmptyTable, K1, ThreadEntry("C1", PreTs, Now0)))

\* a host where import fcntl succeeds. Every environment and every file
\* occur; the full set of files is paired with an environment of the API
\* tier, which is the tier that reads the file. (SpecStore below runs the
\* API tier on hosts with and without fcntl.)
Init ==
    /\ haveFcntl = TRUE
    /\ \/ env \in Envs /\ file = SessionFile
       \/ env = ApiEnv /\ file \in InitFiles
    /\ file0 = file
    /\ fx = NoCall
    /\ InitProcs

\* -------------------------------------------------------------- actions

Notifications == [type : {TURN_COMPLETE, "task-started", ""},
                  session_id : {"", "s1"}]

\* return n from main
Return(p, n) ==
    /\ pc' = [pc EXCEPT ![p] = "done"]
    /\ exitc' = [exitc EXCEPT ![p] = n]

\* a chain that runs every tier inside _with_threads_lock
EntryOf_AllUnderLock(tier) == "lock"

\* where main goes for the backend it chose: only the API tier calls
\* _with_threads_lock
EntryOf(tier) ==
    CASE tier = "api" -> "lock"
      [] tier = "webhook" -> "webhook"
      [] OTHER -> "notify"

\* main up to the choice of the backend, given one of the records N: without
\* an argument, or with one that json.loads rejects, return 2; else the
\* notification is a record. Invocations are numbered in the order they
\* start
StartWith(p, N) ==
    /\ pc[p] = "idle"
    /\ \A q \in Procs : q < p => pc[q] # "idle"
    /\ LET ended == {q \in Procs : pc[q] = "done"} IN
       \/ \E k \in {"noarg", "badjson"} :
            /\ Return(p, 2)
            /\ h' = [h EXCEPT ![p].kind = k, ![p].after = ended]
            /\ UNCHANGED locals
       \/ \E n \in N :
            IF ~IsTurnComplete(n.type)
            THEN /\ Return(p, 0)
                 /\ h' = [h EXCEPT ![p].after = ended,
                                   ![p].kind = IF n.type = TURN_COMPLETE
                                               THEN "turn" ELSE "other"]
                 /\ UNCHANGED locals
            ELSE LET tier == Route(bot_token, channel, webhook_url) IN
                 /\ key' = [key EXCEPT ![p] = SessionKey(n.session_id)]
                 /\ h' = [h EXCEPT ![p].after = ended, ![p].tier = tier,
                                   ![p].kind = IF n.type = TURN_COMPLETE
                                               THEN "turn" ELSE "other"]
                 /\ pc' = [pc EXCEPT ![p] = EntryOf(tier)]
                 /\ UNCHANGED <<threads, thread_ts, exitc>>
    /\ UNCHANGED <<shared, fixed, clock, exc>>

Start(p) == StartWith(p, Notifications)

\* a lock call that returns at once (LOCK_SH, or LOCK_NB with the error ignored)
CanLock_NoWait == TRUE

\* fcntl.flock(f.fileno(), fcntl.LOCK_EX) returns once no other open file
\* description holds the lock
CanLock == lock = {}

\* _with_threads_lock up to the call of fn
Acquire(p) ==
    /\ pc[p] = "lock"
    /\ IF haveFcntl
       THEN /\ CanLock
            /\ lock' = lock \cup {p}
            /\ h' = [h EXCEPT ![p].locked = TRUE, ![p].acq = @ + 1]
       ELSE UNCHANGED <<lock, h>>
    /\ pc' = [pc EXCEPT ![p] = "load"]
    /\ UNCHANGED <<file, tmp, wfd, nextTs, locals, fixed, clock, exc, exitc>>

\* threads = _prune_threads(_load_threads()) and the reply-or-root decision.
\* A parsed value that is no dict has no .items(): AttributeError
Load(p) ==
    /\ pc[p] = "load"
    /\ LET v == LoadThreads(file)
           saw == IF file.kind = "json"
                  THEN (IF file.isobj THEN "object" ELSE "nonobject")
                  ELSE file.kind
       IN
       /\ h' = [h EXCEPT ![p].saw = saw, ![p].loads = @ + 1]
       /\ IF ~v.isobj
          THEN /\ exc' = [exc EXCEPT ![p] = TRUE]
               /\ pc' = [pc EXCEPT ![p] = "unlock"]
               /\ UNCHANGED <<threads, thread_ts>>
          ELSE LET t == PruneThreads(v.tbl, now)
                   ts == ChooseThreadTs(t, key[p], channel)
               IN
               /\ threads' = [threads EXCEPT ![p] = t]
               /\ thread_ts' = [thread_ts EXCEPT ![p] = ts]
               /\ pc' = [pc EXCEPT ![p] = IF ts # 0 THEN "reply" ELSE "root"]
               /\ UNCHANGED exc
    /\ UNCHANGED <<shared, key, fixed, clock, exitc>>

\* how the history names a response
Outcome(resp) ==
    CASE resp = "ok" -> "ok"
      [] resp = "thread_not_found" -> "stale"
      [] OTHER -> "fail"

\* the reply into the stored thread, lines 276-307
PostReply(p) ==
    /\ pc[p] = "reply"
    /\ \E resp \in Responses :
         LET r == PostChatPostMessage(resp, nextTs) IN
         /\ h' = [h EXCEPT ![p].reply = thread_ts[p],
                           ![p].posts = @ + 1,
                           ![p].replyRes = Outcome(resp),
                           ![p].sent = IF resp = "ok" THEN now ELSE 0]
         /\ IF ~r.raised
            THEN /\ threads' = [threads EXCEPT ![p] =
                       Put(@, key[p], ThreadEntry(channel, thread_ts[p], now))]
                 /\ pc' = [pc EXCEPT ![p] = "write"]
                 /\ UNCHANGED exc
            ELSE IF FallsThroughToRoot(r)
            THEN /\ pc' = [pc EXCEPT ![p] = "root"]
                 /\ UNCHANGED <<threads, exc>>
            ELSE /\ exc' = [exc EXCEPT ![p] = TRUE]
                 /\ pc' = [pc EXCEPT ![p] = "unlock"]
                 /\ UNCHANGED threads
    /\ UNCHANGED <<shared, key, thread_ts, fixed, clock, exitc>>

\* "Start a new thread", lines 310-312
PostRoot(p) ==
    /\ pc[p] = "root"
    /\ \E resp \in Responses :
         LET r == PostChatPostMessage(resp, nextTs) IN
         /\ h' = [h EXCEPT ![p].posts = @ + 1,
                           ![p].rootRes =
                       IF resp = "ok" THEN "ok" ELSE "fail",
                           ![p].rootTs = IF resp = "ok" THEN nextTs ELSE 0,
                           ![p].sent = IF resp = "ok" THEN now ELSE 0]
         /\ nextTs' = IF resp = "ok" THEN nextTs + 1 ELSE nextTs
         /\ IF ~r.raised
            THEN /\ threads' = [threads EXCEPT ![p] =
                       Put(@, key[p], ThreadEntry(channel, r.ts, now))]
                 /\ pc' = [pc EXCEPT ![p] = "write"]
                 /\ UNCHANGED exc
            ELSE /\ exc' = [exc EXCEPT ![p] = TRUE]
                 /\ pc' = [pc EXCEPT ![p] = "unlock"]
                 /\ UNCHANGED threads
    /\ UNCHANGED <<file, tmp, wfd, lock, key, thread_ts, fixed, clock, exitc>>

\* _save_threads up to the open of the temporary file, line 190: the
\* argument json.dumps(data, ...) is evaluated first and may raise; then
\* write_text opens tmp with mode "w", which creates or truncates it
OpenTmp(p) ==
    /\ pc[p] = "write"
    /\ h' = [h EXCEPT ![p].saves = @ + 1]
    /\ IF DumpsRaises(threads[p])
       THEN /\ exc' = [exc EXCEPT ![p] = TRUE]
            /\ pc' = [pc EXCEPT ![p] = "unlock"]
            /\ UNCHANGED <<tmp, wfd>>
       ELSE /\ tmp' = PartialFile
            /\ wfd' = [wfd EXCEPT ![p] = "tmp"]
            /\ pc' = [pc EXCEPT ![p] = "writing"]
            /\ UNCHANGED exc
    /\ UNCHANGED <<file, lock, nextTs, locals, fixed, clock, exitc>>

\* the rest of line 190: the text is encoded and written to the file that
\* was opened, wherever a rename has moved it since, and the file is closed
WriteTmp(p) ==
    /\ pc[p] = "writing"
    /\ wfd' = [wfd EXCEPT ![p] = "none"]
    /\ IF EncodeRaises(threads[p])
       THEN /\ exc' = [exc EXCEPT ![p] = TRUE]
            /\ pc' = [pc EXCEPT ![p] = "unlock"]
            /\ UNCHANGED <<file, tmp>>
       ELSE /\ pc' = [pc EXCEPT ![p] = "rename"]
            /\ UNCHANGED exc
            /\ CASE wfd[p] = "tmp" ->
                     /\ \E c \in Written(tmp, Dumps(threads[p])) : tmp' = c
                     /\ UNCHANGED file
                 [] wfd[p] = "file" ->
                     /\ \E c \in Written(file, Dumps(threads[p])) : file' = c
                     /\ UNCHANGED tmp
                 [] OTHER -> UNCHANGED <<file, tmp>>
    /\ UNCHANGED <<lock, nextTs, locals, fixed, clock, exitc, h>>

\* _save_threads, line 191: tmp.replace(p). With the temporary file gone
\* (another unlocked invocation renamed it) os.replace raises; with the
\* temporary file held open by another unlocked invocation the host either
\* renames it as it is or refuses (a sharing violation)
Rename(p) ==
    /\ pc[p] = "rename"
    /\ IF tmp.kind = "absent"
       THEN /\ exc' = [exc EXCEPT ![p] = TRUE]
            /\ pc' = [pc EXCEPT ![p] = "unlock"]
            /\ UNCHANGED <<file, tmp, wfd, h>>
       ELSE \/ /\ \E q \in Procs : wfd[q] = "tmp"
               /\ exc' = [exc EXCEPT ![p] = TRUE]
               /\ pc' = [pc EXCEPT ![p] = "unlock"]
               /\ UNCHANGED <<file, tmp, wfd, h>>
            \/ /\ file' = tmp
               /\ tmp' = AbsentFile
               /\ wfd' = [q \in Procs |->
                            CASE wfd[q] = "tmp" -> "file"
                              [] wfd[q] = "file" -> "lost"
                              [] OTHER -> wfd[q]]
               /\ h' = [h EXCEPT ![p].saved = TRUE,
                                 ![p].wts = IF key[p] \in DOMAIN tmp.tbl
                                            THEN tmp.tbl[key[p]].thread_ts
                                            ELSE 0]
               /\ pc' = [pc EXCEPT ![p] =
                           IF debug_path # "" THEN "debug" ELSE "unlock"]
               /\ UNCHANGED exc
    /\ UNCHANGED <<lock, nextTs, locals, fixed, clock, exitc>>

\* where main goes once the backend is through: the API tier is still inside
\* _with_threads_lock, the other tiers return
LeaveTier(p, failed) ==
    IF h[p].tier = "api"
    THEN /\ pc' = [pc EXCEPT ![p] = "unlock"]
         /\ exc' = [exc EXCEPT ![p] = failed]
         /\ UNCHANGED exitc
    ELSE /\ Return(p, IF failed THEN 1 ELSE 0)
         /\ UNCHANGED exc

\* if debug_path: _debug_log(...); the append may raise OSError
DebugLog(p) ==
    /\ pc[p] = "debug"
    /\ \E ok \in BOOLEAN :
         /\ h' = [h EXCEPT ![p].debug = IF ok THEN "ok" ELSE "fail"]
         /\ LeaveTier(p, ~ok)
    /\ UNCHANGED <<shared, locals, fixed, clock>>

\* a wrapper that unlocks only when fn returns
Unlocked_NoFinally(l, p, raised) == IF raised THEN l ELSE l \ {p}

\* the lock holders after the finally of _with_threads_lock: LOCK_UN runs
\* whether fn returned or raised
Unlocked(l, p, raised) == l \ {p}

\* the finally of _with_threads_lock, then main's return 0 or, with an
\* exception caught by main, return 1
Release(p) ==
    /\ pc[p] = "unlock"
    /\ lock' = Unlocked(lock, p, exc[p])
    /\ Return(p, IF exc[p] THEN 1 ELSE 0)
    /\ threads' = [threads EXCEPT ![p] = EmptyTable]
    /\ thread_ts' = [thread_ts EXCEPT ![p] = 0]
    /\ UNCHANGED <<file, tmp, wfd, nextTs, key, fixed, clock, exc, h>>

\* the process is killed inside _save_threads, between the open of the
\* temporary file and the rename: the kernel closes its files, which drops
\* its flock, and nothing after line 190 or 191 runs
Crash(p) ==
    /\ pc[p] \in {"writing", "rename"}
    /\ lock' = lock \ {p}
    /\ wfd' = [wfd EXCEPT ![p] = "none"]
    /\ Return(p, 137)
    /\ h' = [h EXCEPT ![p].killed = TRUE]
    /\ threads' = [threads EXCEPT ![p] = EmptyTable]
    /\ thread_ts' = [thread_ts EXCEPT ![p] = 0]
    /\ UNCHANGED <<file, tmp, nextTs, key, fixed, clock, exc>>

\* the webhook tier, lines 333-348
PostWebhook(p) ==
    /\ pc[p] = "webhook"
    /\ \E ok \in BOOLEAN :
         /\ h' = [h EXCEPT ![p].webhook = IF ok THEN "ok" ELSE "fail"]
         /\ IF ok /\ debug_path # ""
            THEN /\ pc' = [pc EXCEPT ![p] = "debug"]
                 /\ UNCHANGED exitc
            ELSE Return(p, IF ok THEN 0 ELSE 1)
    /\ UNCHANGED <<shared, locals, fixed, clock, exc>>

\* the desktop tier, lines 351-365: _notify_send raises when notify-send is
\* not installed or exits non-zero
NotifySend(p) ==
    /\ pc[p] = "notify"
    /\ \E ok \in BOOLEAN :
         /\ h' = [h EXCEPT ![p].notify = IF ok THEN "ok" ELSE "fail"]
         /\ IF ok /\ debug_path # ""
            THEN /\ pc' = [pc EXCEPT ![p] = "debug"]
                 /\ UNCHANGED exitc
            ELSE Return(p, IF ok THEN 0 ELSE 1)
    /\ UNCHANGED <<shared, locals, fixed, clock, exc>>

InFlight(p) == pc[p] \notin {"idle", "done"}

\* time passes: a second at any point of the run, then a retention window
\* between invocations (an invocation lasts a few network timeouts of 10 s)
Tick ==
    /\ \/ /\ now = Now0
          /\ now' = now + 1
       \/ /\ now = Now0 + 1
          /\ \A p \in Procs : ~InFlight(p)
          /\ now' = now + max_age_s
    /\ UNCHANGED <<shared, pc, locals, fixed, exc, exitc, h>>

Next ==
    \/ \E p \in Procs :
         \/ Start(p)
         \/ Acquire(p)
         \/ Load(p)
         \/ PostReply(p)
         \/ PostRoot(p)
         \/ OpenTmp(p)
         \/ WriteTmp(p)
         \/ Rename(p)
         \/ DebugLog(p)
         \/ Release(p)
         \/ PostWebhook(p)
         \/ NotifySend(p)
    \/ Tick

Spec == Init /\ [][Next]_vars

\* ------------------------- the API tier with and without fcntl, and kills

\* a table with a thread of session K1 and an entry of session K2 that is
\* older than the retention window
AgedFile ==
    Dumps(Put(Put(EmptyTable, K1, ThreadEntry("C1", PreTs, Now0)),
              K2, ThreadEntry("C1", PreTs, Now0 - max_age_s - 1)))

StoreFiles == {Dumps(EmptyTable), SessionFile, AgedFile}

\* a host without fcntl runs the same code unlocked
InitStore ==
    /\ \/ haveFcntl = TRUE /\ file \in StoreFiles
       \/ haveFcntl = FALSE /\ file = Dumps(EmptyTable)
    /\ env = ApiEnv
    /\ file0 = file
    /\ fx = NoCall
    /\ InitProcs

\* records of the recognized type
StoreNotifications == [type : {TURN_COMPLETE}, session_id : {"", "s1"}]

StoreStart(p) == StartWith(p, StoreNotifications)

\* one step of an invocation that has started
Step(p) ==
    \/ Acquire(p)
    \/ Load(p)
    \/ PostReply(p)
    \/ PostRoot(p)
    \/ OpenTmp(p)
    \/ WriteTmp(p)
    \/ Rename(p)
    \/ Release(p)

NextStore ==
    \E p \in Procs :
      \/ StoreStart(p)
      \/ Step(p)
      \/ Crash(p)

SpecStore == InitStore /\ [][NextStore]_vars

\* the hosts where there is a lock to wait for
InitLive == InitStore /\ haveFcntl

\* every network call ends (urlopen has timeout=10) and the host schedules
\* every process: a step that stays possible is taken. flock(LOCK_EX)
\* returns once the lock stays free, which it does when the other
\* invocations have ended
SpecLive ==
    /\ InitLive
    /\ [][NextStore]_vars
    /\ \A p \in Procs : WF_vars(Step(p))

\* ------------------------------------------- _prune_threads on its own

PruneKeys == {"", "#7", K1, K2}

PruneEntries ==
    {ThreadEntry("C1", PreTs, Now0),
     ThreadEntry("C1", PreTs, Now0 - max_age_s),
     ThreadEntry("C1", PreTs, Now0 - max_age_s - 1),
     ThreadEntry("C1", PreTs, Now0 + 5),
     [ThreadEntry("C1", PreTs, 0) EXCEPT !.ua_int = FALSE],
     ThreadEntry("C1", -1, Now0),
     NotADict}

PruneTables ==
    UNION {[D -> PruneEntries] : D \in SUBSET PruneKeys}

InitPrune ==
    /\ env = ApiEnv
    /\ haveFcntl = TRUE
    /\ file = AbsentFile
    /\ file0 = file
    /\ InitProcs
    /\ \E t \in PruneTables :
         fx = [op |-> "prune", arg |-> t, at |-> Now0, done |-> FALSE,
               out |-> EmptyTable, raised |-> FALSE]

\* pruned = _prune_threads(threads), with time.time() read once
PruneCall ==
    /\ fx.op = "prune"
    /\ ~fx.done
    /\ fx' = [fx EXCEPT !.done = TRUE, !.out = PruneThreads(fx.arg, fx.at)]
    /\ UNCHANGED <<env, haveFcntl, file0, shared, clock, pc, locals, exc,
                   exitc, h>>

NextPrune == PruneCall

SpecPrune == InitPrune /\ [][NextPrune]_vars

\* ------------------------------- _save_threads then _load_threads, alone

\* _save_threads(data) run to its end with nothing else running: the files
\* it leaves and whether it raised
SaveThreads(data, f, t) ==
    IF DumpsRaises(data)
    THEN [file |-> f, tmp |-> t, raised |-> TRUE]
    ELSE IF EncodeRaises(data)
    THEN [file |-> f, tmp |-> PartialFile, raised |-> TRUE]
    ELSE [file |-> Dumps(data), tmp |-> AbsentFile, raised |-> FALSE]

\* the session key of a record whose session id is a lone surrogate
KSurrogate == SessionKey("\\ud800")

RtKeys == {"", "#7", K1, KSurrogate}

RtEntries ==
    {ThreadEntry("C1", PreTs, Now0),
     ThreadEntry("C2", PreTs + 1, 0),
     NotADict}

RtTables ==
    UNION {[D -> RtEntries] : D \in SUBSET RtKeys}

InitRoundTrip ==
    /\ env = ApiEnv
    /\ haveFcntl = TRUE
    /\ file \in {AbsentFile, SessionFile}
    /\ file0 = file
    /\ InitProcs
    /\ \E t \in RtTables :
         fx = [op |-> "roundtrip", arg |-> t, at |-> 0, done |-> FALSE,
               out |-> EmptyTable, raised |-> FALSE]

\* try: _save_threads(data) except: raised; then out = _load_threads()
RoundTripCall ==
    /\ fx.op = "roundtrip"
    /\ ~fx.done
    /\ LET r == SaveThreads(fx.arg, file, tmp) IN
       /\ file' = r.file
       /\ tmp' = r.tmp
       /\ fx' = [fx EXCEPT !.done = TRUE, !.raised = r.raised,
                           !.out = LoadThreads(r.file).tbl]
    /\ UNCHANGED <<env, haveFcntl, file0, wfd, lock, nextTs, clock, pc,
                   locals, exc, exitc, h>>

NextRoundTrip == RoundTripCall

SpecRoundTrip == InitRoundTrip /\ [][NextRoundTrip]_vars

\* ------------------------------------------------ _truncate on its own

\* the character "\u2026" that _truncate appends
ELLIPSIS == "..."

Chars == {"a", ELLIPSIS}

Texts == UNION {[1..n -> Chars] : n \in 0..MaxLen}

Limits == (0 - 1)..MaxLimit

Max(a, b) == IF a >= b THEN a ELSE b
Min(a, b) == IF a <= b THEN a ELSE b

\* text[:n] for n >= 0
Prefix(text, n) == SubSeq(text, 1, Min(Len(text), n))

\* a cut that keeps limit characters and then appends the ellipsis
Truncate_KeepsLimit(text, limit) ==
    IF Len(text) <= limit THEN text
    ELSE Prefix(text, Max(0, limit)) \o <<ELLIPSIS>>

\* _truncate
Truncate(text, limit) ==
    IF Len(text) <= limit THEN text
    ELSE Prefix(text, Max(0, limit - 1)) \o <<ELLIPSIS>>

InitTruncate ==
    /\ env = ApiEnv
    /\ haveFcntl = TRUE
    /\ file = AbsentFile
    /\ file0 = file
    /\ InitProcs
    /\ \E text \in Texts, limit \in Limits :
         fx = [op |-> "truncate", arg |-> text, at |-> limit, done |-> FALSE,
               out |-> <<>>, raised |-> FALSE]

\* out = _truncate(text, limit)
TruncateCall ==
    /\ fx.op = "truncate"
    /\ ~fx.done
    /\ fx' = [fx EXCEPT !.done = TRUE, !.out = Truncate(fx.arg, fx.at)]
    /\ UNCHANGED <<env, haveFcntl, file0, shared, clock, pc, locals, exc,
                   exitc, h>>

NextTruncate == TruncateCall

SpecTruncate == InitTruncate /\ [][NextTruncate]_vars

\* ================================================================ claims

\* inside the function _with_threads_lock runs, or in its finally
InCS(p) ==
    \/ pc[p] \in {"load", "reply", "root", "write", "writing", "rename",
                  "unlock"}
    \/ pc[p] = "debug" /\ h[p].tier = "api"

ApiProcs == {p \in Procs : h[p].tier = "api"}

\* the handles the table holds
Handles(f) == {f.tbl[k].thread_ts : k \in DOMAIN f.tbl}

\* the handles the backend returned for root messages
RootHandles == {h[p].rootTs : p \in {q \in Procs : h[q].rootRes = "ok"}}

\* C1: with fcntl available, at most one invocation at a time is inside the
\* critical section (from the load to the release in the finally), whether
\* or not a critical section raises.
C1_MutualExclusion ==
    haveFcntl => Cardinality({p \in Procs : InCS(p)}) <= 1

\* C1's case: a critical section is leaving by an exception while another
\* invocation waits for the lock
C1_Witness ==
    /\ haveFcntl
    /\ \E p, q \in Procs : pc[p] = "unlock" /\ exc[p] /\ pc[q] = "lock"

\* the run so far is one burst of API invocations for session k, all within
\* one retention window, with every network call answered by success, from
\* a table that holds no entry for k
C2_Case(k) ==
    /\ haveFcntl
    /\ Route(bot_token, channel, webhook_url) = "api"
    /\ file0.kind # "json" \/ (file0.isobj /\ k \notin DOMAIN file0.tbl)
    /\ \A p \in ApiProcs : key[p] = k
    /\ \A p \in Procs : h[p].replyRes \in {"none", "ok"}
                          /\ h[p].rootRes \in {"none", "ok"}
    /\ now - Now0 <= max_age_s

PostFailed(p) == h[p].replyRes = "fail" \/ h[p].rootRes = "fail"

\* C3: an invocation whose post raised never replaces the Thread Store file
\* (nor is it on the way to), and every handle in the file is one the file
\* held at the start or one a successful root post returned.
C3_FailedPostKeepsStore ==
    /\ \A p \in Procs :
         PostFailed(p) =>
           ~h[p].saved /\ pc[p] \notin {"write", "writing", "rename"}
    /\ Handles(file) \subseteq Handles(file0) \cup RootHandles

\* C3's case: a stale reply fell through to a root post that failed, the
\* invocation ended with exit code 1 and the file is what it was
C3_Witness ==
    \E p \in Procs :
      /\ pc[p] = "done" /\ exitc[p] = 1
      /\ h[p].replyRes = "stale" /\ h[p].rootRes = "fail"
      /\ ~h[p].saved
      /\ file = file0 /\ file.kind = "json"

\* q runs after p, for the same session: p had ended with exit code 0 and
\* its entry saved when q started, p's entry is within the retention window,
\* and the table is not otherwise changed: any third invocation ended
\* before p started or has not started or, under the lock, has not saved
C4_Sequential(p, q) ==
    /\ p # q
    /\ h[p].tier = "api" /\ h[q].tier = "api"
    /\ key[p] = key[q]
    /\ p \in h[q].after
    /\ exitc[p] = 0 /\ h[p].saved
    /\ \A r \in Procs \ {p, q} :
         \/ r \in h[p].after
         \/ pc[r] = "idle"
         \/ haveFcntl /\ ~h[r].saved
    /\ now - h[p].sent <= max_age_s
    /\ h[q].saw # "none"

\* q's post is a reply that carries the handle p saved
C4_RepliesIntoStored(p, q) ==
    /\ pc[q] # "root" \/ h[q].replyRes # "none"
    /\ IF h[q].replyRes = "none"
       THEN pc[q] = "reply" /\ thread_ts[q] = h[p].wts
       ELSE h[q].reply = h[p].wts

\* once q has saved, the session's entry is p's with updated_at set to the
\* time of q's reply
C4_OnlyRefreshed(p, q) ==
    /\ pc[q] = "done" => h[q].saved
    /\ h[q].saved =>
         /\ h[q].wts = h[p].wts
         /\ file.kind = "json" /\ file.isobj /\ key[q] \in DOMAIN file.tbl
         /\ file.tbl[key[q]] = ThreadEntry(channel, h[p].wts, h[q].sent)
         /\ h[q].sent >= h[p].sent

\* C4 as claimed: the second of two sequential invocations replies into the
\* stored handle, posts no root message, and leaves the entry with the same
\* handle and a refreshed updated_at.
C4_AsClaimed ==
    \A p, q \in Procs :
      C4_Sequential(p, q) =>
        /\ C4_RepliesIntoStored(p, q)
        /\ h[q].rootRes = "none" /\ pc[q] # "root"
        /\ C4_OnlyRefreshed(p, q)

\* C4 as amended: the second invocation's first post is a reply into the
\* stored handle; when that reply succeeds it posts no root message and
\* saves the entry with the same handle and updated_at refreshed.
C4_ReplyReusesHandle ==
    \A p, q \in Procs :
      C4_Sequential(p, q) =>
        /\ C4_RepliesIntoStored(p, q)
        /\ h[q].replyRes = "ok" =>
              /\ h[q].rootRes = "none" /\ pc[q] # "root"
              /\ C4_OnlyRefreshed(p, q)

\* C4's case: the first invocation posted the root, the second ran after it
\* a second later, replied and saved
C4_Witness ==
    \E p, q \in Procs :
      /\ C4_Sequential(p, q)
      /\ h[p].rootRes = "ok"
      /\ pc[q] = "done" /\ h[q].replyRes = "ok" /\ h[q].saved
      /\ h[q].sent > h[p].sent

\* C5 as claimed, where the lock is available: after a reply rejected as
\* thread_not_found the invocation posts a root message without leaving the
\* critical section, and when that post succeeds it saves the new handle
\* for the session and exits 0; after any other reply failure it posts no
\* root message and exits 1.
C5_AsClaimed ==
    haveFcntl =>
      \A p \in Procs :
        /\ h[p].replyRes = "stale" =>
             /\ pc[p] # "done" => InCS(p) /\ p \in lock
             /\ pc[p] = "done" => h[p].rootRes # "none"
             /\ pc[p] = "done" /\ h[p].rootRes = "ok" =>
                   h[p].saved /\ h[p].wts = h[p].rootTs /\ exitc[p] = 0
        /\ h[p].replyRes = "fail" =>
             /\ h[p].rootRes = "none" /\ pc[p] # "root"
             /\ pc[p] = "done" => exitc[p] = 1

\* a variable is configured when it is non-empty once stripped
Configured(v) == Strip(v) # ""

\* the tier the precedence rule names for the environment
ExpectedTier ==
    IF Configured(env.SLACK_BOT_TOKEN) /\ Configured(env.SLACK_CHANNEL)
    THEN "api"
    ELSE IF Configured(env.SLACK_WEBHOOK_URL) THEN "webhook"
    ELSE "notify"

\* what shows that a backend was entered
ApiUsed(p) ==
    \/ pc[p] \in {"lock", "load", "reply", "root", "write", "writing",
                  "rename", "unlock"}
    \/ h[p].locked
    \/ h[p].saw # "none"
    \/ h[p].replyRes # "none"
    \/ h[p].rootRes # "none"
    \/ h[p].saved

WebhookUsed(p) == pc[p] = "webhook" \/ h[p].webhook # "none"

NotifyUsed(p) == pc[p] = "notify" \/ h[p].notify # "none"

UsedTiers(p) ==
    {t \in {"api", "webhook", "notify"} :
       \/ t = "api" /\ ApiUsed(p)
       \/ t = "webhook" /\ WebhookUsed(p)
       \/ t = "notify" /\ NotifyUsed(p)}

\* C6: an invocation with the recognized type enters exactly one backend,
\* the one the precedence rule names; with token, channel and webhook URL
\* all configured the webhook is never called.
C6_OneTierByPrecedence ==
    \A p \in Procs :
      /\ h[p].kind = "turn" /\ pc[p] # "idle" => UsedTiers(p) = {ExpectedTier}
      /\ h[p].kind # "turn" => UsedTiers(p) = {}

\* C6's case: everything is configured and an invocation has delivered
\* through the API tier
C6_Witness ==
    /\ env = FullEnv
    /\ \E p \in Procs :
         pc[p] = "done" /\ h[p].rootRes = "ok" /\ h[p].webhook = "none"

\* no tier below the selected one was entered
NoLowerTier(p) ==
    /\ h[p].tier = "api" => ~WebhookUsed(p) /\ ~NotifyUsed(p)
    /\ h[p].tier = "webhook" => ~NotifyUsed(p)

\* C7 as claimed: once a network call of the selected tier has failed, no
\* lower tier is entered and the invocation ends with exit code 1.
C7_AsClaimed ==
    \A p \in Procs :
      (h[p].replyRes \in {"stale", "fail"} \/ h[p].rootRes = "fail"
         \/ h[p].webhook = "fail") =>
        /\ NoLowerTier(p)
        /\ pc[p] = "done" => exitc[p] = 1

\* C7 as amended: no lower tier is entered after a failed network call, and
\* the invocation ends with exit code 1 unless the failed call is a reply
\* rejected as thread_not_found, which the API tier follows with a root
\* post of its own.
C7_NoFailover ==
    \A p \in Procs :
      /\ (h[p].replyRes \in {"stale", "fail"} \/ h[p].rootRes = "fail"
            \/ h[p].webhook = "fail") => NoLowerTier(p)
      /\ (h[p].replyRes = "fail" \/ h[p].rootRes = "fail"
            \/ h[p].webhook = "fail") =>
           (pc[p] = "done" => exitc[p] = 1) /\ pc[p] \in {"unlock", "done"}

\* C7's case: with a webhook configured below it, the API tier's post
\* failed and the invocation ended
C7_Witness ==
    /\ Configured(env.SLACK_WEBHOOK_URL)
    /\ \E p \in Procs :
         /\ pc[p] = "done" /\ exitc[p] = 1
         /\ h[p].tier = "api" /\ h[p].rootRes = "fail"

\* C8: an invocation given a record of another type has ended with exit
\* code 0 and has done nothing: no backend, no lock, no load or save of the
\* Thread Store, no debug line, no session key.
C8_OtherTypeNoEffect ==
    \A p \in Procs :
      h[p].kind = "other" =>
        /\ pc[p] = "done" /\ exitc[p] = 0
        /\ h[p] = [H0 EXCEPT !.kind = "other", !.after = h[p].after]
        /\ p \notin lock
        /\ key[p] = "" /\ threads[p] = EmptyTable

\* C8's case: with every variable configured, a record of another type was
\* handled
C8_Witness ==
    /\ env = FullEnv
    /\ \E p \in Procs : h[p].kind = "other" /\ pc[p] = "done"

\* C9 as claimed: whatever an API invocation finds in place of a table
\* (no file, a file that is not JSON, JSON that is not an object), it goes
\* on to post a root message as from an empty table.
C9_AsClaimed ==
    \A p \in Procs :
      h[p].saw \in {"absent", "garbage", "nonobject"} =>
        /\ h[p].reply = 0
        /\ pc[p] = "root" \/ h[p].rootRes # "none"

\* C10 as claimed: every entry of the result has an updated_at within the
\* window, and no entry strictly older than the window is in the result.
C10_AsClaimed ==
    fx.done =>
      /\ \A k \in DOMAIN fx.out :
           fx.out[k].ua_int /\ fx.at - fx.out[k].updated_at <= max_age_s
      /\ \A k \in DOMAIN fx.arg :
           (fx.arg[k].ua_int /\ fx.at - fx.arg[k].updated_at > max_age_s)
             => k \notin DOMAIN fx.out

\* C10 as amended: every entry of the result that has an integer updated_at
\* has it within the window, and no entry whose integer updated_at is
\* strictly older than the window is in the result.
C10_PrunedWithinWindow ==
    fx.done =>
      /\ \A k \in DOMAIN fx.out :
           fx.out[k].ua_int => fx.at - fx.out[k].updated_at <= max_age_s
      /\ \A k \in DOMAIN fx.arg :
           (fx.arg[k].ua_int /\ fx.at - fx.arg[k].updated_at > max_age_s)
             => k \notin DOMAIN fx.out

\* C10's case: the table held an entry one second older than the window,
\* one exactly at its edge and one without updated_at
C10_Witness ==
    /\ fx.done
    /\ \E k \in DOMAIN fx.arg :
         /\ k \in {K1, K2}
         /\ fx.arg[k].ua_int /\ fx.at - fx.arg[k].updated_at > max_age_s
    /\ \E k \in DOMAIN fx.out :
         fx.out[k].ua_int /\ fx.at - fx.out[k].updated_at = max_age_s

\* the step is the rename at the end of p's _save_threads, of the complete
\* table p wrote
SavedWhole(p) ==
    /\ pc[p] = "rename" /\ pc'[p] # "rename"
    /\ tmp = Dumps(threads[p])
    /\ file' = tmp

\* the Thread Store file is never a partly written text and no
\* _load_threads read one
NeverPartial ==
    /\ file.kind # "partial"
    /\ \A p \in Procs : h[p].saw # "partial"

WellShaped(t) ==
    \A k \in DOMAIN t :
      /\ k \notin NonStrKeys
      /\ t[k].isdict /\ t[k].thread_ts >= 0 /\ t[k].ua_int

\* C12 as claimed: for every table with string keys and entries of the
\* ThreadEntry shape, _save_threads(table) followed by _load_threads()
\* returns a table equal to it.
C12_AsClaimed ==
    (fx.done /\ WellShaped(fx.arg)) => (~fx.raised /\ fx.out = fx.arg)

\* C13 as claimed: for every text and limit, _truncate returns the text
\* unchanged when it is no longer than the limit, and otherwise exactly
\* limit characters: the first limit - 1 of the text, then one ellipsis.
C13_AsClaimed ==
    fx.done =>
      IF Len(fx.arg) <= fx.at
      THEN fx.out = fx.arg
      ELSE /\ Len(fx.out) = fx.at
           /\ fx.out = Prefix(fx.arg, fx.at - 1) \o <<ELLIPSIS>>

\* C13 as amended: the same for every limit of at least 1; for a limit
\* below 1 a text longer than the limit comes back as the ellipsis alone.
C13_TruncateToLimit ==
    fx.done =>
      IF Len(fx.arg) <= fx.at
      THEN fx.out = fx.arg
      ELSE IF fx.at >= 1
      THEN /\ Len(fx.out) = fx.at
           /\ fx.out = Prefix(fx.arg, fx.at - 1) \o <<ELLIPSIS>>
      ELSE fx.out = <<ELLIPSIS>>

\* C13's case: a text longer than a limit of 2 or more was cut
C13_Witness ==
    /\ fx.done
    /\ fx.at >= 2 /\ Len(fx.arg) > fx.at
    /\ Len(fx.out) = fx.at /\ fx.out[fx.at] = ELLIPSIS

\* the selected backend delivered the message
Delivered(p) ==
    \/ h[p].replyRes = "ok"
    \/ h[p].rootRes = "ok"
    \/ h[p].webhook = "ok"
    \/ h[p].notify = "ok"

\* C14 as claimed: with a debug path set, an invocation whose backend
\* delivered the message ends with exit code 0 whether or not the debug
\* line could be appended; exit code 1 means the delivery itself failed.
C14_AsClaimed ==
    debug_path # "" =>
      \A p \in Procs :
        /\ (pc[p] = "done" /\ Delivered(p)) => exitc[p] = 0
        /\ exitc[p] = 1 => ~Delivered(p)

\* the entry the file held at the start for p's session, when it is an
\* entry with a handle for another channel than the configured one
OtherChannelEntry(p) ==
    /\ file0.kind = "json" /\ file0.isobj
    /\ key[p] \in DOMAIN file0.tbl
    /\ file0.tbl[key[p]].isdict
    /\ file0.tbl[key[p]].thread_ts >= 1
    /\ file0.tbl[key[p]].channel # channel

\* C15 as claimed: an API invocation whose session has an entry for another
\* channel never replies into that entry's handle, and once it has ended
\* the file still holds that entry, with the same channel and handle.
C15_AsClaimed ==
    \A p \in ApiProcs :
      OtherChannelEntry(p) =>
        /\ h[p].reply # file0.tbl[key[p]].thread_ts
        /\ pc[p] = "done" =>
              /\ file.kind = "json" /\ key[p] \in DOMAIN file.tbl
              /\ file.tbl[key[p]].channel = file0.tbl[key[p]].channel
              /\ file.tbl[key[p]].thread_ts = file0.tbl[key[p]].thread_ts

\* between the flock and the end of _save_threads
Working(p) ==
    pc[p] \in {"load", "reply", "root", "write", "writing", "rename"}

\* C16 as claimed: one execution of the critical section makes at most one
\* load, at most one network call and at most one save, all of them while it
\* holds the lock.
C16_AsClaimed ==
    \A p \in Procs :
      /\ h[p].loads <= 1 /\ h[p].posts <= 1 /\ h[p].saves <= 1
      /\ (haveFcntl /\ Working(p)) => p \in lock

\* C16 as amended: at most one load and one save, and at most two network
\* calls, the second being the root post that follows a reply rejected as
\* thread_not_found; all of them while the invocation holds the lock.
C16_BoundedWork ==
    \A p \in Procs :
      /\ h[p].loads <= 1 /\ h[p].posts <= 2 /\ h[p].saves <= 1
      /\ h[p].posts = 2 => (h[p].replyRes = "stale" /\ h[p].rootRes # "none")
      /\ (haveFcntl /\ Working(p)) => p \in lock

\* C16's case: the stale-thread path ran to its end under the lock: one
\* load, the rejected reply, the root post, one save
C16_Witness ==
    \E p \in Procs :
      /\ haveFcntl /\ h[p].locked
      /\ pc[p] = "done" /\ exitc[p] = 0
      /\ h[p].loads = 1 /\ h[p].posts = 2 /\ h[p].saves = 1

\* C18 as claimed: every entry of the result has a non-empty string key and
\* a dict value with a string handle and an updated_at that is absent or
\* within the window; every other entry of the input is absent from the
\* result, and every such entry of the input is in the result unchanged.
WellFormed(k, e, t) ==
    /\ k \notin NonStrKeys /\ k # ""
    /\ e.isdict /\ e.thread_ts >= 0
    /\ ~e.ua_int \/ t - e.updated_at <= max_age_s

C18_AsClaimed ==
    fx.done =>
      /\ \A k \in DOMAIN fx.out : WellFormed(k, fx.out[k], fx.at)
      /\ \A k \in DOMAIN fx.arg :
           IF WellFormed(k, fx.arg[k], fx.at)
           THEN k \in DOMAIN fx.out /\ fx.out[k] = fx.arg[k]
           ELSE k \notin DOMAIN fx.out

\* C17: no invocation takes the lock twice or asks for it while it holds
\* it; every invocation that holds the lock lets go of it, whether its
\* critical section returns, raises or is killed; and every invocation
\* that asks for the lock ends.
C17_NoDeadlock ==
    /\ [](\A p \in Procs : h[p].acq <= 1 /\ (p \in lock => pc[p] # "lock"))
    /\ \A p \in Procs : (p \in lock) ~> (p \notin lock)
    /\ \A p \in Procs : (pc[p] = "lock") ~> (pc[p] = "done")

\* C17's case: an invocation left its critical section by an exception,
\* and another that had started before then took the lock after it and
\* ended
C17_Witness ==
    /\ haveFcntl
    /\ \E p, q \in Procs :
         /\ p # q /\ p \notin h[q].after
         /\ pc[p] = "done" /\ exitc[p] = 1 /\ h[p].acq = 1
         /\ pc[q] = "done" /\ h[q].acq = 1 /\ h[q].saw = "object"
         /\ h[q].replyRes # "none" /\ h[p].rootRes = "fail"
         /\ lock = {}

\* the handle the backend gave p's message: the root's own, or the thread
\* replied into
HandleOf(p) == IF h[p].rootRes = "ok" THEN h[p].rootTs ELSE h[p].reply

\* p's table, about to be renamed over the file, differs from the file in
\* p's own key and in entries _prune_threads drops
OnlyOwnKey(p) ==
    /\ tmp = Dumps(threads[p])
    /\ DOMAIN tmp.tbl \subseteq (DOMAIN file.tbl) \cup {key[p]}
    /\ \A k \in (DOMAIN file.tbl) \ {key[p]} :
         IF k \in DOMAIN tmp.tbl
         THEN tmp.tbl[k] = file.tbl[k]
         ELSE ~PruneKeeps(k, file.tbl[k], now)

\* C19: with the lock available, every invocation that has ended with exit
\* code 0, and whose session key no other invocation uses, has its entry in
\* the file with the handle the backend returned to it; and the table an
\* invocation is about to rename over the file differs from the file only
\* in its own key and in entries pruning drops.
C19_NoLostUpdate ==
    haveFcntl =>
      \A p \in ApiProcs :
        /\ (/\ pc[p] = "done" /\ exitc[p] = 0
            /\ \A q \in ApiProcs \ {p} : key[q] # key[p])
             => /\ file.kind = "json" /\ key[p] \in DOMAIN file.tbl
                /\ file.tbl[key[p]] =
                      ThreadEntry(channel, HandleOf(p), h[p].sent)
        /\ pc[p] = "rename" => OnlyOwnKey(p)

\* C19's case: two invocations with different session keys overlapped, both
\* posted a root and ended with exit code 0
C19_Witness ==
    /\ haveFcntl
    /\ \E p, q \in ApiProcs :
         /\ key[p] # key[q]
         /\ p \notin h[q].after /\ q \notin h[p].after
         /\ pc[p] = "done" /\ exitc[p] = 0 /\ h[p].rootRes = "ok"
         /\ pc[q] = "done" /\ exitc[q] = 0 /\ h[q].rootRes = "ok"
         /\ file.tbl[key[p]].thread_ts = h[p].rootTs
         /\ file.tbl[key[q]].thread_ts = h[q].rootTs

\* C20: an invocation that selected the webhook or the desktop tier never
\* takes the lock, never loads or saves the Thread Store, never opens its
\* temporary file and never calls chat.postMessage; the desktop tier also
\* never posts to the webhook.
C20_LowerTiersLeaveStore ==
    \A p \in Procs :
      h[p].tier \in {"webhook", "notify"} =>
        /\ pc[p] \in {"webhook", "notify", "debug", "done"}
        /\ p \notin lock /\ wfd[p] = "none"
        /\ h[p].acq = 0 /\ h[p].loads = 0 /\ h[p].saves = 0
        /\ ~h[p].saved
        /\ h[p].posts = 0
        /\ h[p].tier = "notify" => (pc[p] # "webhook" /\ h[p].webhook = "none")

\* C20's case: beside a table on disk, an invocation delivered through the
\* webhook or through notify-send and ended, and the file is as it was
C20_Witness ==
    /\ file = file0 /\ file.kind = "json"
    /\ \E p \in Procs :
         /\ h[p].tier \in {"webhook", "notify"}
         /\ pc[p] = "done" /\ exitc[p] = 0

====
